---- MODULE Spec2Model ----
(***************************************************************************)
(* Knowledge-base ingestion and clearing in the four Streamlit front-ends  *)
(* code-reviewer.py, code-analysis.py, pynvme.py and renode.py.            *)
(*                                                                         *)
(* One behaviour is one deployment of one front-end (app) with one browser *)
(* session.  A step is one run of the script from top to bottom, started   *)
(* by a user interaction (a change of the uploader, a button, any other    *)
(* widget) or by st.rerun(), or a step of the environment that changes the *)
(* protection of a stored file.                                            *)
(*                                                                         *)
(* Spec is the knowledge-base part of a session; SessionSpec adds the tab  *)
(* handlers that call an agent and the session history; SaveSpec is the    *)
(* save tools save_test_case and save_renode_code called by the agents;    *)
(* RaceSpec is the upload handling of several sessions on one deployment,  *)
(* statement by statement.                                                 *)
(***************************************************************************)
EXTENDS Integers, Sequences, FiniteSets, TLC

VARIABLES
    app,            \* which front-end this deployment runs
    fs,             \* the directories on disk: directory -> [exists, files]
    coll,           \* the Vector Index collection: [exists, chunks]
    upl,            \* the content of the file_uploader widgets: [code, doc]
    uploader_key,   \* st.session_state.uploader_key
    kb_flag,        \* st.session_state.kb_cleared / kb_loaded
    pc,             \* "idle", or "rerun" after st.rerun()
    out,            \* what the last script run did and displayed
    history,        \* st.session_state.review_history / generation_history
    resp,           \* what the tab handler of the last script run did
    save,           \* the save tools: [clock, n, dirs, files, last]
    race            \* concurrent sessions: [file, first, sess]

vars == <<app, fs, coll, upl, uploader_key, kb_flag, pc, out, history, resp, save, race>>

----------------------------------------------------------------------------
(* Bounds of the model *)

MaxBatch == 2       \* files held by the uploaders of one run
MaxKey == 1         \* Clear Knowledge Base runs that complete in a session
MaxProtected == 1   \* files the environment protects at a time
MaxHistory == 2     \* records a session appends to its history
MaxSaves == 2       \* calls of a tool by the agents
MaxClock == 1       \* seconds the clock advances during the saves
MaxNameLen == 2     \* characters of a name passed to a save tool
MaxSessions == 2    \* sessions open on one deployment

\* The contents a file can have: two distinct byte strings, bytesA and bytesB.
Bytes == {"bytesA", "bytesB"}

----------------------------------------------------------------------------
(* The four front-ends and their configuration *)

Apps == {"code-reviewer", "code-analysis", "pynvme", "renode"}

DocsApps == {"pynvme", "renode"}

VECTOR_DB_PATH(a) ==
    CASE a = "code-reviewer" -> "./chroma_db"
      [] a = "code-analysis" -> "./chroma_db"
      [] a = "pynvme" -> "./pynvme_chroma_db"
      [] a = "renode" -> "./renode_chroma_db"

CollectionName(a) ==
    CASE a = "code-reviewer" -> "code_review_docs"
      [] a = "code-analysis" -> "code_review_docs"
      [] a = "pynvme" -> "pynvme_docs"
      [] a = "renode" -> "renode_docs"

\* The directory the code uploader stores into ("" when the app has none).
CodeDir(a) == IF a \in {"code-reviewer", "code-analysis"} THEN "uploaded_code" ELSE ""

\* The directory the documentation uploader stores into.
DocsDir(a) ==
    CASE a = "code-reviewer" -> "uploaded_docs"
      [] a = "code-analysis" -> ""
      [] a = "pynvme" -> "pynvme_docs"
      [] a = "renode" -> "renode_docs"

\* The directory the save tool of the app writes generated files into.
GeneratedDir(a) ==
    CASE a = "pynvme" -> "generated_tests"
      [] a = "renode" -> "generated_renode"
      [] OTHER -> ""

\* The folders Clear Knowledge Base removes, in the order of the code.
ReviewerClearFolders == <<"uploaded_code", "uploaded_docs", VECTOR_DB_PATH("code-reviewer")>>

AnalysisClearFolders == <<"uploaded_code", VECTOR_DB_PATH("code-analysis")>>

PynvmeClearFolders == <<"pynvme_docs", VECTOR_DB_PATH("pynvme"), "generated_tests">>

RenodeClearFolders == <<"renode_docs", VECTOR_DB_PATH("renode"), "generated_renode">>

ClearFolders(a) ==
    CASE a = "code-reviewer" -> ReviewerClearFolders
      [] a = "code-analysis" -> AnalysisClearFolders
      [] a = "pynvme" -> PynvmeClearFolders
      [] a = "renode" -> RenodeClearFolders

Range(s) == {s[i] : i \in DOMAIN s}

Dirs(a) == Range(ClearFolders(a))

\* The file name a user uploads to the code uploader (type=["c", "h"]) and to the
\* documentation uploader (type=["pdf", ...]); an uploader can hold several
\* files of one name.
CodeNames(a) == IF CodeDir(a) = "" THEN {} ELSE {"driver.c"}

DocNames(a) == IF DocsDir(a) = "" THEN {} ELSE {"manual.pdf"}

\* Files that live in a directory without having been uploaded.
VectorFile == "chroma.sqlite3"

GeneratedFile == "generated_1"

----------------------------------------------------------------------------
(* The file system *)

NoFiles == [n \in {} |-> 0]

AbsentDir == [exists |-> FALSE, files |-> NoFiles]

EmptyDir == [exists |-> TRUE, files |-> NoFiles]

\* os.path.exists(os.path.join(d, n))
FileExists(dir, n) == dir.exists /\ n \in DOMAIN dir.files

\* os.makedirs(d, exist_ok=True)
Makedirs(f, d) == IF f[d].exists THEN f ELSE [f EXCEPT ![d] = EmptyDir]

\* open(path, "wb") fails on a file that is read-only or held by another process.
Writable(dir, n) == ~FileExists(dir, n) \/ dir.files[n].mode = "rw"

\* with open(path, "wb") as f: f.write(bytes) -- creates the file or replaces its content.
WriteFile(dir, n, b) ==
    [exists |-> TRUE,
     files |-> [x \in DOMAIN dir.files \cup {n} |->
                  IF x = n
                  THEN [bytes |-> b,
                        mode |-> IF n \in DOMAIN dir.files THEN dir.files[n].mode ELSE "rw"]
                  ELSE dir.files[x]]]

Restrict(files, S) == [x \in S |-> files[x]]

\* The files of a directory that os.unlink cannot remove as they are.
Protected(dir) == {n \in DOMAIN dir.files : dir.files[n].mode # "rw"}

\* The files that stay even after os.chmod(path, stat.S_IWRITE).
Stubborn(dir) == {n \in DOMAIN dir.files : dir.files[n].mode = "stuck"}

\* The directory after a removal that left the files `left` behind: os.rmdir
\* removes the directory only when it is empty.
AfterRemoval(dir, left) ==
    IF left = {} THEN AbsentDir ELSE [exists |-> TRUE, files |-> Restrict(dir.files, left)]

----------------------------------------------------------------------------
(* shutil.rmtree under the three error policies of the front-ends.  Each   *)
(* gives the set of possible results [dir, raised].                        *)

\* code-reviewer.py: shutil.rmtree(folder, onerror=remove_readonly).  The handler
\* forces write permission and retries; a failure of the retry is swallowed, so
\* rmtree returns normally and leaves the stubborn files (and the folder) behind.
RmtreeRemoveReadonly(dir) ==
    {[dir |-> AfterRemoval(dir, Stubborn(dir)), raised |-> FALSE]}

\* code-analysis.py: shutil.rmtree(folder, onexc=handle_remove_readonly).  The
\* handler forces write permission and retries; a failure of the retry leaves the
\* handler and rmtree as an exception.  The files removed before that one are any
\* of the others: the order of os.scandir is not fixed.
RmtreeHandleRemoveReadonly(dir) ==
    IF Stubborn(dir) = {}
    THEN {[dir |-> AbsentDir, raised |-> FALSE]}
    ELSE {[dir |-> AfterRemoval(dir, Stubborn(dir) \cup X), raised |-> TRUE] :
            X \in SUBSET (DOMAIN dir.files \ Stubborn(dir))}

\* pynvme.py, renode.py: shutil.rmtree(folder, ignore_errors=True).  Every failure
\* is ignored and nothing is retried.
RmtreeIgnoreErrors(dir) ==
    {[dir |-> AfterRemoval(dir, Protected(dir)), raised |-> FALSE]}

Rmtree(a, dir) ==
    CASE a = "code-reviewer" -> RmtreeRemoveReadonly(dir)
      [] a = "code-analysis" -> RmtreeHandleRemoveReadonly(dir)
      [] OTHER -> RmtreeIgnoreErrors(dir)

\* The loop (or the sequence of ifs) over the folders of Clear Knowledge Base:
\* a folder is removed only if os.path.exists(folder).  Gives the set of possible
\* results: the file system, the folders reported as deleted, the folders rmtree
\* was called on, and whether an exception left the loop.
RECURSIVE RemoveFolders(_, _, _)
RemoveFolders(a, f, folders) ==
    IF folders = <<>>
    THEN {[fs |-> f, reported |-> {}, attempted |-> {}, raised |-> FALSE]}
    ELSE LET d == Head(folders) IN
         IF ~f[d].exists
         THEN RemoveFolders(a, f, Tail(folders))
         ELSE UNION {
                IF r.raised
                THEN {[fs |-> [f EXCEPT ![d] = r.dir], reported |-> {},
                       attempted |-> {d}, raised |-> TRUE]}
                ELSE {[fs |-> t.fs, reported |-> t.reported \cup {d},
                       attempted |-> t.attempted \cup {d}, raised |-> t.raised] :
                        t \in RemoveFolders(a, [f EXCEPT ![d] = r.dir], Tail(folders))}
                : r \in Rmtree(a, f[d])}

----------------------------------------------------------------------------
(* The Vector Index and the knowledge sources *)

NoCollection == [exists |-> FALSE, chunks |-> {}]

\* Opening the persistent Chroma client creates its directory and database file.
ClientOpen(f, a) ==
    IF FileExists(f[VECTOR_DB_PATH(a)], VectorFile)
    THEN f
    ELSE [f EXCEPT ![VECTOR_DB_PATH(a)] = WriteFile(@, VectorFile, "index")]

\* vector_db.client.delete_collection(name): raises when the collection does not
\* exist.
DeleteCollection(c) ==
    IF c.exists
    THEN {[coll |-> NoCollection, ok |-> TRUE]}
    ELSE {[coll |-> c, ok |-> FALSE]}

\* The documents a knowledge source reads from its directory.
Documents(f, d) ==
    IF f[d].exists
    THEN {[path |-> d, name |-> n, bytes |-> f[d].files[n].bytes] : n \in DOMAIN f[d].files}
    ELSE {}

\* knowledge.load(recreate, upsert) on the documents docs: recreate drops the
\* collection first; the collection is created if absent; the documents are
\* upserted (or, without upsert, inserted unless present: chunks are keyed by
\* their content, so both leave the same set).  The embedding or index service
\* may fail at any point: then any part of the documents has been stored.
KnowledgeLoad(c, docs, recreate, upsert) ==
    LET base == IF recreate THEN {} ELSE c.chunks
        kept == c.exists /\ ~recreate
    IN  {[coll |-> [exists |-> TRUE, chunks |-> base \cup docs], ok |-> TRUE]}
        \cup {[coll |-> [exists |-> kept \/ S # {}, chunks |-> base \cup S], ok |-> FALSE] :
                S \in SUBSET docs}
        \cup {[coll |-> [exists |-> TRUE, chunks |-> base], ok |-> FALSE]}

\* A load call that recreates the collection.
MutantRecreateLoadArgs == [recreate |-> TRUE, upsert |-> TRUE]

\* The arguments of the load calls of the front-ends.
ReviewerCodeLoadArgs == [recreate |-> FALSE, upsert |-> TRUE]

ReviewerDocsLoadArgs == [recreate |-> FALSE, upsert |-> TRUE]

AnalysisLoadArgs == [recreate |-> FALSE, upsert |-> TRUE]

PynvmeLoadArgs == [recreate |-> FALSE, upsert |-> TRUE]

RenodeLoadArgs == [recreate |-> FALSE, upsert |-> TRUE]

----------------------------------------------------------------------------
(* Storing an upload batch *)

\* A store that writes whether or not the file exists.
MutantWriteAlways(exists) == TRUE

\* if not os.path.exists(file_path): the condition under which a file is written.
ReviewerCodeWriteGuard(exists) == ~exists

ReviewerDocWriteGuard(exists) == ~exists

PynvmeWriteGuard(exists) == ~exists

RenodeWriteGuard(exists) == ~exists

\* code-analysis.py opens and writes every uploaded file, stored before or not.
AnalysisWriteGuard(exists) == TRUE

WriteGuard(a, cat, exists) ==
    CASE a = "code-reviewer" /\ cat = "code" -> ReviewerCodeWriteGuard(exists)
      [] a = "code-reviewer" /\ cat = "doc" -> ReviewerDocWriteGuard(exists)
      [] a = "code-analysis" -> AnalysisWriteGuard(exists)
      [] a = "pynvme" -> PynvmeWriteGuard(exists)
      [] a = "renode" -> RenodeWriteGuard(exists)

\* for file in files: ... -- the files of the batch in order.  Gives the
\* directory afterwards, for each file handled whether it was written, and whether
\* open() raised (which ends the loop: the later files are not handled).
RECURSIVE StoreBatch(_, _, _, _)
StoreBatch(a, cat, dir, batch) ==
    IF batch = <<>>
    THEN [dir |-> dir, written |-> <<>>, raised |-> FALSE]
    ELSE LET it == Head(batch)
             w == WriteGuard(a, cat, FileExists(dir, it.name))
         IN  IF w /\ ~Writable(dir, it.name)
             THEN [dir |-> dir, written |-> <<>>, raised |-> TRUE]
             ELSE LET d1 == IF w THEN WriteFile(dir, it.name, it.bytes) ELSE dir
                      r == StoreBatch(a, cat, d1, Tail(batch))
                  IN  [dir |-> r.dir, written |-> <<w>> \o r.written, raised |-> r.raised]

----------------------------------------------------------------------------
(* What one script run did and displayed *)

Msg(level, text, arg) == [level |-> level, text |-> text, arg |-> arg]

NoOut(button, u) ==
    [button |-> button,         \* the button whose press started the run
     batch |-> u,               \* the content of the uploaders in the run
     written_code |-> <<>>,     \* per code file handled: was it written
     written_doc |-> <<>>,      \* per documentation file handled: was it written
     files_updated |-> FALSE,   \* the variable files_updated of code-reviewer.py
     loads |-> <<>>,            \* the load calls made: [kb, recreate, upsert, ok]
     msgs |-> {},               \* the st.info/success/warning/error messages
     attempted |-> {},          \* the folders shutil.rmtree was called on
     coll_delete |-> "none",    \* delete_collection: "none", "ok" or "failed"
     raised |-> FALSE]          \* an exception left the script uncaught

NoUpload == [code |-> <<>>, doc |-> <<>>]

\* A Clear Knowledge Base that keeps the key of the uploaders.
MutantKeepKey(key) == key

\* st.session_state.uploader_key += 1
NextKey(key) == key + 1

\* The collection once Clear Knowledge Base has removed folders: if the directory
\* of the persistent index is gone its collection may be gone with it, or still be
\* served by the client the process holds.
AfterVectorDirRemoval(c, f, a) ==
    IF f[VECTOR_DB_PATH(a)].exists THEN {c} ELSE {c, NoCollection}

\* A sequence of load calls inside one try block: the first that raises ends it.
\* reqs: the calls, [kb, path, args].  Gives the possible [coll, loads, failed].
RECURSIVE LoadSeq(_, _, _)
LoadSeq(c, f, reqs) ==
    IF reqs = <<>>
    THEN {[coll |-> c, loads |-> <<>>, failed |-> FALSE]}
    ELSE LET q == Head(reqs)
             call(ok) == [kb |-> q.kb, recreate |-> q.args.recreate,
                          upsert |-> q.args.upsert, ok |-> ok]
         IN  UNION {
               IF r.ok
               THEN {[coll |-> t.coll, loads |-> <<call(TRUE)>> \o t.loads, failed |-> t.failed] :
                        t \in LoadSeq(r.coll, f, Tail(reqs))}
               ELSE {[coll |-> r.coll, loads |-> <<call(FALSE)>>, failed |-> TRUE]}
               : r \in KnowledgeLoad(c, Documents(f, q.path), q.args.recreate, q.args.upsert)}

AnyWritten(written) == TRUE \in Range(written)

----------------------------------------------------------------------------
(* code-reviewer.py *)

\* A collection delete whose failure reaches the outer except.
MutantDeleteUncaught == FALSE

\* try: delete_collection(...) except Exception: st.warning(...) -- a failure of
\* the collection delete is caught where it happens.
ReviewerDeleteCaught == TRUE

\* The Clear Knowledge Base handler when nothing leaves the inner try blocks: the
\* collection is deleted, then every folder that exists is removed, then
\* uploader_key is incremented and st.rerun() ends the run.
ReviewerClearCompletes(f, c, key, u) ==
    LET a == "code-reviewer"
        f0 == ClientOpen(f, a)
    IN  UNION {UNION {
          {[fs |-> rf.fs, coll |-> c2, upl |-> NoUpload, key |-> NextKey(key), flag |-> TRUE,
            pc |-> "rerun",
            out |-> [NoOut("clear", u) EXCEPT
                       !.coll_delete = IF dc.ok THEN "ok" ELSE "failed",
                       !.attempted = rf.attempted,
                       !.msgs = {Msg("info", "Deleted", d) : d \in rf.reported}
                                \cup (IF dc.ok
                                      THEN {Msg("info", "ChromaDB collection deleted", "")}
                                      ELSE {Msg("warning", "Could not delete collection", "")})
                                \cup {Msg("success", "Knowledge base cleared!", "")}]] :
             c2 \in AfterVectorDirRemoval(dc.coll, rf.fs, a)}
          : rf \in RemoveFolders(a, f0, ReviewerClearFolders)}
          : dc \in DeleteCollection(c)}

\* The load calls of a run that updated files: code_knowledge if the code
\* uploader holds files, docs_knowledge if the documentation uploader does.
ReviewerLoadReqs(u) ==
    (IF u.code # <<>>
     THEN <<[kb |-> "code_knowledge", path |-> "uploaded_code", args |-> ReviewerCodeLoadArgs]>>
     ELSE <<>>)
    \o (IF u.doc # <<>>
        THEN <<[kb |-> "docs_knowledge", path |-> "uploaded_docs", args |-> ReviewerDocsLoadArgs]>>
        ELSE <<>>)

\* A run that loads whenever an uploader holds files.
MutantLoadWhenUploaded(files_updated, u) == u.code # <<>> \/ u.doc # <<>>

\* if files_updated: -- the condition under which the knowledge base is loaded.
ReviewerShouldLoad(files_updated, u) == files_updated

\* The script below the sidebar: the directories are created, the batch is
\* stored, and the knowledge base is loaded if files_updated.
ReviewerBody(button, f, c, key, u) ==
    LET a == "code-reviewer"
        f1 == Makedirs(Makedirs(f, "uploaded_code"), "uploaded_docs")
        sc == StoreBatch(a, "code", f1["uploaded_code"], u.code)
        sd == StoreBatch(a, "doc", f1["uploaded_docs"], u.doc)
        f2 == [f1 EXCEPT !["uploaded_code"] = sc.dir,
                         !["uploaded_docs"] = IF sc.raised THEN @ ELSE sd.dir]
        files_updated == AnyWritten(sc.written) \/ AnyWritten(sd.written)
        o == [NoOut(button, u) EXCEPT
                !.written_code = sc.written,
                !.written_doc = IF sc.raised THEN <<>> ELSE sd.written,
                !.files_updated = files_updated,
                !.msgs = (IF AnyWritten(sc.written) THEN {Msg("success", "Uploaded", "code")} ELSE {})
                         \cup (IF AnyWritten(sd.written) THEN {Msg("success", "Uploaded", "doc")} ELSE {})]
        res(ff, cc, oo) == [fs |-> ff, coll |-> cc, upl |-> u, key |-> key, flag |-> FALSE,
                            pc |-> "idle", out |-> oo]
    IN  IF sc.raised \/ sd.raised
        THEN {res(f2, c, [o EXCEPT !.raised = TRUE, !.files_updated = FALSE, !.msgs = {}])}
        ELSE IF ~ReviewerShouldLoad(files_updated, u)
        THEN {res(f2, c, o)}
        ELSE {res(ClientOpen(f2, a), l.coll,
                  [o EXCEPT !.loads = l.loads,
                            !.msgs = @ \cup {IF l.failed
                                             THEN Msg("error", "Error loading knowledge base", "")
                                             ELSE Msg("success", "Knowledge base updated!", "")}]) :
                l \in LoadSeq(c, f2, ReviewerLoadReqs(u))}

\* The Clear Knowledge Base handler: an exception that reaches the outer except
\* is displayed and the script goes on below the sidebar.
ReviewerClear(f, c, key, u) ==
    IF ~c.exists /\ ~ReviewerDeleteCaught
    THEN {[r EXCEPT !.out.coll_delete = "failed",
                    !.out.msgs = @ \cup {Msg("error", "Error clearing knowledge base", "")}] :
            r \in ReviewerBody("clear", ClientOpen(f, "code-reviewer"), c, key, u)}
    ELSE ReviewerClearCompletes(f, c, key, u)

ReviewerScript(button, f, c, key, u) ==
    IF button = "clear" THEN ReviewerClear(f, c, key, u) ELSE ReviewerBody(button, f, c, key, u)

----------------------------------------------------------------------------
(* code-analysis.py *)

\* The Clear Knowledge Base handler: the two folders are removed under
\* os.path.exists, outside any try; only the directories are removed, the
\* collection is not deleted through the index.  st.experimental_rerun() ends the run.
AnalysisClear(f, c, u) ==
    LET a == "code-analysis" IN
    UNION {
      IF rf.raised
      THEN {[fs |-> rf.fs, coll |-> c, upl |-> u, key |-> 0, flag |-> FALSE, pc |-> "idle",
             out |-> [NoOut("clear", u) EXCEPT !.attempted = rf.attempted, !.raised = TRUE]]}
      ELSE {[fs |-> rf.fs, coll |-> c2, upl |-> u, key |-> 0, flag |-> FALSE, pc |-> "rerun",
             out |-> [NoOut("clear", u) EXCEPT
                        !.attempted = rf.attempted,
                        !.msgs = {Msg("success", "Knowledge base cleared!", "")}]] :
              c2 \in AfterVectorDirRemoval(c, rf.fs, a)}
      : rf \in RemoveFolders(a, f, AnalysisClearFolders)}

\* The script below the sidebar: the directory is created, every uploaded file
\* is written, and the knowledge base is loaded whenever the uploader holds files.
AnalysisBody(button, f, c, u) ==
    LET a == "code-analysis"
        f1 == Makedirs(f, "uploaded_code")
        sc == StoreBatch(a, "code", f1["uploaded_code"], u.code)
        f2 == [f1 EXCEPT !["uploaded_code"] = sc.dir]
        o == [NoOut(button, u) EXCEPT !.written_code = sc.written]
        res(ff, cc, oo) == [fs |-> ff, coll |-> cc, upl |-> u, key |-> 0, flag |-> FALSE,
                            pc |-> "idle", out |-> oo]
    IN  IF u.code = <<>>
        THEN {res(f1, c, o)}
        ELSE IF sc.raised
        THEN {res(f2, c, [o EXCEPT !.raised = TRUE])}
        ELSE {res(f2, l.coll,
                  [o EXCEPT !.loads = l.loads,
                            !.msgs = {Msg("success", "Uploaded", "code"),
                                      IF l.failed
                                      THEN Msg("error", "Error loading knowledge base", "")
                                      ELSE Msg("success", "Knowledge base updated!", "")}]) :
                l \in LoadSeq(c, f2, <<[kb |-> "code_knowledge", path |-> "uploaded_code",
                                        args |-> AnalysisLoadArgs]>>)}

\* chromadb.PersistentClient(path=VECTOR_DB_PATH) at the top of every run, then
\* the sidebar and the rest of the script.
AnalysisScript(button, f, c, u) ==
    LET f0 == ClientOpen(f, "code-analysis") IN
    IF button = "clear" THEN AnalysisClear(f0, c, u) ELSE AnalysisBody(button, f0, c, u)

----------------------------------------------------------------------------
(* pynvme.py and renode.py, which differ in their names only *)

DocsLoadArgs(a) == IF a = "pynvme" THEN PynvmeLoadArgs ELSE RenodeLoadArgs

DocsKnowledge(a) == IF a = "pynvme" THEN "pynvme_knowledge" ELSE "renode_knowledge"

\* The Load Documentation button, shown (and so pressed) only while the uploader
\* holds files: the load is called whatever the batch wrote.
DocsLoad(a, f, c, u) ==
    LoadSeq(c, f, <<[kb |-> DocsKnowledge(a), path |-> DocsDir(a), args |-> DocsLoadArgs(a)]>>)

\* The Clear Knowledge Base handler: delete_collection is the first statement of
\* the one try block, so when it raises the folders are not touched; otherwise
\* every folder that exists is removed, uploader_key is incremented and
\* st.rerun() ends the run.
DocsClear(a, f, c, key, flag, u, o) ==
    LET f0 == ClientOpen(f, a) IN
    UNION {
      IF ~dc.ok
      THEN {[fs |-> f0, coll |-> dc.coll, upl |-> u, key |-> key, flag |-> flag, pc |-> "idle",
             out |-> [o EXCEPT !.coll_delete = "failed",
                               !.msgs = {Msg("error", "Error clearing knowledge base", "")}]]}
      ELSE UNION {
             {[fs |-> rf.fs, coll |-> c2, upl |-> NoUpload, key |-> NextKey(key), flag |-> FALSE,
               pc |-> "rerun",
               out |-> [o EXCEPT !.coll_delete = "ok",
                                 !.attempted = rf.attempted,
                                 !.msgs = {Msg("info", "Deleted", d) : d \in rf.reported}
                                          \cup {Msg("success", "Knowledge base cleared!", "")}]] :
                c2 \in AfterVectorDirRemoval(dc.coll, rf.fs, a)}
             : rf \in RemoveFolders(a, f0, ClearFolders(a))}
      : dc \in DeleteCollection(c)}

\* The sidebar in the order of the script: the directory is created, the batch is
\* stored, then the Load Documentation handler, then the Clear Knowledge Base handler.
DocsScript(a, button, f, c, key, flag, u) ==
    LET f1 == Makedirs(f, DocsDir(a))
        sd == StoreBatch(a, "doc", f1[DocsDir(a)], u.doc)
        f2 == [f1 EXCEPT ![DocsDir(a)] = sd.dir]
        o == [NoOut(button, u) EXCEPT !.written_doc = sd.written]
        res(ff, cc, fl, oo) == [fs |-> ff, coll |-> cc, upl |-> u, key |-> key, flag |-> fl,
                                pc |-> "idle", out |-> oo]
    IN  IF sd.raised
        THEN {res(f2, c, flag, [o EXCEPT !.raised = TRUE])}
        ELSE IF button = "load" /\ u.doc # <<>>
        THEN {res(ClientOpen(f2, a), l.coll, IF l.failed THEN flag ELSE TRUE,
                  [o EXCEPT !.loads = l.loads,
                            !.msgs = {IF l.failed
                                      THEN Msg("error", "Error loading documentation", "")
                                      ELSE Msg("success", "Documentation loaded!", "")}]) :
                l \in DocsLoad(a, f2, c, u)}
        ELSE IF button = "clear"
        THEN DocsClear(a, f2, c, key, flag, u, o)
        ELSE {res(f2, c, flag, o)}

----------------------------------------------------------------------------
(* The tab handlers that call an agent, and the session history *)

\* The text of a text_area: empty, or a request.
Queries == {"", "check"}

ReviewerTabs == {"Comprehensive", "Code Analysis", "Architecture", "Safety"}
AnalysisTabs == {"Analyze Code"}
PynvmeTabs == {"Orchestrated", "Generation", "Validation", "Expert"}
\* "Browser" is the Validate button of a file in the Generated Code Browser.
RenodeTabs == {"Orchestrated", "Generation", "Validation", "Expert", "Browser"}

Tabs(a) ==
    CASE a = "code-reviewer" -> ReviewerTabs
      [] a = "code-analysis" -> AnalysisTabs
      [] a = "pynvme" -> PynvmeTabs
      [] OTHER -> RenodeTabs

\* The agent whose run() the handler of a tab calls.
TabResponder(a, tab) ==
    CASE a = "code-reviewer" /\ tab = "Comprehensive" -> "review_team"
      [] a = "code-reviewer" /\ tab = "Code Analysis" -> "code_analyzer"
      [] a = "code-reviewer" /\ tab = "Architecture" -> "architecture_reviewer"
      [] a = "code-reviewer" /\ tab = "Safety" -> "safety_validator"
      [] a = "code-analysis" -> "code_analyzer"
      [] a = "pynvme" /\ tab = "Orchestrated" -> "test_orchestrator"
      [] a = "pynvme" /\ tab = "Generation" -> "test_generator"
      [] a = "pynvme" /\ tab = "Validation" -> "test_validator"
      [] a = "pynvme" /\ tab = "Expert" -> "pynvme_expert"
      [] a = "renode" /\ tab = "Orchestrated" -> "code_orchestrator"
      [] a = "renode" /\ tab = "Generation" -> "code_generator"
      [] a = "renode" /\ tab = "Expert" -> "renode_expert"
      [] OTHER -> "code_validator"

\* A handler that called run() on two agents in one script run.
MutantCallsTwice(a, tab) == <<TabResponder(a, tab), TabResponder(a, tab)>>

\* The run() calls a handler makes once its checks have passed.
RespondCalls(a, tab) == <<TabResponder(a, tab)>>

\* The agents that hold a save tool, directly or through their team.
MaySave(a, tab) == a \in DocsApps /\ tab \in {"Orchestrated", "Generation"}

\* code_count = len(list(Path("uploaded_code").glob("*.[ch]"))) if the
\* directory exists, else 0.
CodeCount(f) ==
    IF f["uploaded_code"].exists
    THEN Cardinality({n \in DOMAIN f["uploaded_code"].files : n \in {"driver.c"}})
    ELSE 0

\* A front-end that never refuses a request for want of code files.
MutantNoCountCheck(count) == FALSE

\* if code_count == 0: st.warning("Please upload code files first!")
ReviewerRefuses(count) == count = 0

AnalysisRefuses(count) == count = 0

\* A front-end that sends an empty text to the agent.
MutantNoEmptyCheck(q) == FALSE

\* if not <text>: st.warning(...) -- the first check of every handler with a
\* text_area (the second one in code-analysis.py).
EmptyQuery(q) == q = ""

\* The record a handler appends after a successful run(), as a sequence: empty
\* where the handler appends nothing.  Of the fields of a record the model
\* keeps "type" and the field that holds the request.
ReviewerRecord(tab, q) == <<[type |-> tab, query |-> q]>>

AnalysisRecord(q) == <<[query |-> q]>>

PynvmeRecord(tab, q) ==
    CASE tab \in {"Orchestrated", "Generation"} -> <<[type |-> tab, requirement |-> q]>>
      [] tab = "Validation" -> <<[type |-> "Validation", requirement |-> "Code validation"]>>
      [] OTHER -> <<>>

RenodeRecord(tab, q) ==
    CASE tab \in {"Orchestrated", "Generation"} -> <<[type |-> tab, requirement |-> q]>>
      [] tab = "Validation" -> <<[type |-> "Validation", requirement |-> "Code validation"]>>
      [] OTHER -> <<>>

Record(a, tab, q) ==
    CASE a = "code-reviewer" -> ReviewerRecord(tab, q)
      [] a = "code-analysis" -> AnalysisRecord(q)
      [] a = "pynvme" -> PynvmeRecord(tab, q)
      [] OTHER -> RenodeRecord(tab, q)

\* A history that keeps its newest record first.
MutantPrepend(h, recs) == recs \o h

\* st.session_state.review_history.append(...) / generation_history.append(...)
HistoryAppend(h, recs) == h \o recs

\* What a handler did: the tab, the text it was given, the run() calls it made
\* ([responder, ok]), the warning it displayed ("" if none), and whether it
\* displayed an error.
NoResp == [tab |-> "none", query |-> "", calls |-> <<>>, warning |-> "", failed |-> FALSE]

Refused(tab, q, w) == [NoResp EXCEPT !.tab = tab, !.query = q, !.warning = w]

\* with st.spinner(...): try: response = <agent>.run(...); ...append(...)
\* except Exception: st.error(...).  The calls are made in order; a call that
\* raises ends the block.  An agent that holds a save tool may have saved a file
\* by the time run() returns or raises.
RunAgent(a, tab, q, f, h) ==
    LET rs == RespondCalls(a, tab)
        done(k, ok) == [i \in 1 .. k |-> [responder |-> rs[i], ok |-> (i < k \/ ok)]]
        g == GeneratedDir(a)
        saved == IF MaySave(a, tab)
                 THEN {f, [f EXCEPT ![g] = WriteFile(Makedirs(f, g)[g], GeneratedFile, "generated")]}
                 ELSE {f}
    IN  {[fs |-> ff, history |-> HistoryAppend(h, Record(a, tab, q)),
          resp |-> [NoResp EXCEPT !.tab = tab, !.query = q, !.calls = done(Len(rs), TRUE)]] :
            ff \in saved}
        \cup
        {[fs |-> ff, history |-> h,
          resp |-> [NoResp EXCEPT !.tab = tab, !.query = q, !.calls = done(k, FALSE),
                                  !.failed = TRUE]] :
            ff \in saved, k \in 1 .. Len(rs)}

\* The handlers of the four tabs of code-reviewer.py.
ReviewerHandler(tab, q, f, h) ==
    IF EmptyQuery(q)
    THEN {[fs |-> f, history |-> h, resp |-> Refused(tab, q, "Please enter a request")]}
    ELSE IF ReviewerRefuses(CodeCount(f))
    THEN {[fs |-> f, history |-> h, resp |-> Refused(tab, q, "Please upload code files first!")]}
    ELSE RunAgent("code-reviewer", tab, q, f, h)

\* The Analyze Code handler of code-analysis.py.
AnalysisHandler(tab, q, f, h) ==
    IF AnalysisRefuses(CodeCount(f))
    THEN {[fs |-> f, history |-> h, resp |-> Refused(tab, q, "Please upload code files first!")]}
    ELSE IF EmptyQuery(q)
    THEN {[fs |-> f, history |-> h, resp |-> Refused(tab, q, "Please enter a request")]}
    ELSE RunAgent("code-analysis", tab, q, f, h)

\* The handlers of pynvme.py and renode.py.  The Validate button of the browser
\* sends the content of the file and has no text of the user to check.
DocsHandler(a, tab, q, f, h) ==
    IF tab = "Browser"
    THEN RunAgent(a, tab, f[GeneratedDir(a)].files[GeneratedFile].bytes, f, h)
    ELSE IF EmptyQuery(q)
    THEN {[fs |-> f, history |-> h, resp |-> Refused(tab, q, "Please enter a request")]}
    ELSE RunAgent(a, tab, q, f, h)

Handler(a, tab, q, f, h) ==
    CASE a = "code-reviewer" -> ReviewerHandler(tab, q, f, h)
      [] a = "code-analysis" -> AnalysisHandler(tab, q, f, h)
      [] OTHER -> DocsHandler(a, tab, q, f, h)

\* The Delete button of a generated file: os.remove(file), then st.rerun().  In
\* pynvme.py an exception of os.remove leaves the script; in renode.py it is
\* caught and displayed.
DeleteFile(a, f) ==
    LET g == GeneratedDir(a) IN
    IF f[g].files[GeneratedFile].mode = "rw"
    THEN [fs |-> [f EXCEPT ![g].files = Restrict(@, DOMAIN @ \ {GeneratedFile})], ok |-> TRUE]
    ELSE [fs |-> f, ok |-> FALSE]

----------------------------------------------------------------------------
(* The save tools save_test_case (pynvme.py) and save_renode_code          *)
(* (renode.py).  A string is a sequence of characters; a word such as       *)
(* "resc" or "generated_renode" stands for its letters, which no operation  *)
(* below tells apart.  Paths are those of a POSIX build: "/" separates.     *)

\* The characters of a name an agent passes to a tool.
Chars == {"t", ".", "/", "\\"}

\* The names of up to MaxNameLen characters.
SaveNames == UNION {[1 .. k -> Chars] : k \in 1 .. MaxNameLen}

\* The category arguments: the default, a parent directory, an absolute path.
Categories == {<<"general">>, <<".", ".">>}

\* The code_type arguments: two of the types the page offers, and one that is no type.
CodeTypes == {<<"resc">>, <<"robot">>, <<".", ".">>}

Codes == {"codeA", "codeB"}

\* re.sub(r'[^\w\-_]', '_', filename)
Sanitize(name) == [i \in DOMAIN name |-> IF name[i] \in {".", "/", "\\"} THEN "_" ELSE name[i]]

\* s split at "/".
RECURSIVE SplitAt(_, _, _)
SplitAt(s, cur, acc) ==
    IF s = <<>> THEN Append(acc, cur)
    ELSE IF Head(s) = "/" THEN SplitAt(Tail(s), <<>>, Append(acc, cur))
    ELSE SplitAt(Tail(s), Append(cur, Head(s)), acc)

IsName(c) == c # <<>> /\ c # <<".">>

\* pathlib.Path(s): absolute if s starts with "/"; empty and "." components are
\* dropped, ".." components are kept.
PathOf(s) ==
    [abs |-> s # <<>> /\ Head(s) = "/",
     parts |-> SelectSeq(SplitAt(s, <<>>, <<>>), IsName)]

\* p / q of pathlib: an absolute q replaces p.
PathJoin(p, q) == IF q.abs THEN q ELSE [abs |-> p.abs, parts |-> p.parts \o q.parts]

\* The file system's reading of the components: ".." leaves the directory
\* reached so far; above the start it stays in the result (at the root it is
\* the root).
RECURSIVE Walk(_, _, _)
Walk(parts, seen, abs) ==
    IF parts = <<>> THEN seen
    ELSE IF Head(parts) # <<".", ".">> THEN Walk(Tail(parts), Append(seen, Head(parts)), abs)
    ELSE IF seen # <<>> /\ seen[Len(seen)] # <<".", ".">>
    THEN Walk(Tail(parts), SubSeq(seen, 1, Len(seen) - 1), abs)
    ELSE IF abs THEN Walk(Tail(parts), seen, abs)
    ELSE Walk(Tail(parts), Append(seen, Head(parts)), abs)

\* The place a path names: [abs, parts] with no ".." below a name.
Resolve(p) == [abs |-> p.abs, parts |-> Walk(p.parts, <<>>, p.abs)]

Parent(p) == [p EXCEPT !.parts = SubSeq(@, 1, Len(@) - 1)]

\* The place is below the directory `root` of the working directory.
Within(place, root) ==
    /\ ~place.abs
    /\ Len(place.parts) > 1
    /\ place.parts[1] = root

\* Path.mkdir(parents=True, exist_ok=True): the directory and its ancestors.
MkdirParents(dirs, p) ==
    dirs \cup {Resolve([p EXCEPT !.parts = SubSeq(@, 1, k)]) : k \in 1 .. Len(p.parts)}

\* The working directory, its ancestors and the root exist; another directory
\* exists if a mkdir made it.
DirExists(dirs, place) ==
    \/ \A i \in DOMAIN place.parts : place.parts[i] = <<".", ".">>
    \/ place \in dirs

\* extensions.get(code_type, ".txt")
Extension(code_type) ==
    CASE code_type = <<"resc">> -> <<".", "resc">>
      [] code_type = <<"repl">> -> <<".", "repl">>
      [] code_type = <<"cs">> -> <<".", "cs">>
      [] code_type = <<"platform">> -> <<".", "repl">>
      [] OTHER -> <<".", "txt">>

\* datetime.now().strftime("%Y%m%d_%H%M%S"): one value per second.
Timestamp(clock) == <<ToString(clock)>>

NoCall == [tool |-> "none", name |-> <<>>, safe |-> <<>>, code |-> "", path |-> PathOf(<<>>),
           dir |-> PathOf(<<>>), status |-> "none", arg |-> <<>>, result |-> <<>>]

\* with open(filepath, "w") as f: f.write(code), inside try: the file is
\* created or truncated; a missing directory raises, and the except branch
\* returns status "error".
WriteSaved(sv, tool, name, safe, code, dir, filepath) ==
    LET dirs == MkdirParents(sv.dirs, dir)
        place == Resolve(filepath)
        ok == DirExists(dirs, Parent(place)) /\ place \notin dirs
        call == [tool |-> tool, name |-> name, safe |-> safe, code |-> code, path |-> place,
                 dir |-> Resolve(dir), status |-> IF ok THEN "success" ELSE "error",
                 arg |-> <<>>, result |-> IF ok THEN <<"success">> ELSE <<"error">>]
    IN  [sv EXCEPT !.n = @ + 1,
                   !.dirs = dirs,
                   !.files = IF ok
                             THEN [x \in DOMAIN @ \cup {place} |-> IF x = place THEN code ELSE @[x]]
                             ELSE @,
                   !.last = call]

\* save_test_case(test_name, test_code, category)
save_test_case(sv, test_name, test_code, category) ==
    LET test_dir == PathOf(<<"generated_tests", "/">> \o category)
        filename == test_name \o <<"_">> \o Timestamp(sv.clock) \o <<".", "py">>
        filepath == PathJoin(test_dir, PathOf(filename))
    IN  WriteSaved(sv, "save_test_case", test_name, test_name, test_code, test_dir, filepath)

\* save_renode_code(filename, code, code_type, category)
save_renode_code(sv, filename, code, code_type, category) ==
    LET ext == Extension(code_type)
        code_dir == PathOf(<<"generated_renode", "/">> \o category \o <<"/">> \o code_type)
        safe_filename == Sanitize(filename)
        full_filename == safe_filename \o <<"_">> \o Timestamp(sv.clock) \o ext
        filepath == PathJoin(code_dir, PathOf(full_filename))
    IN  [WriteSaved(sv, "save_renode_code", filename, safe_filename, code, code_dir, filepath)
            EXCEPT !.last.arg = code_type]

----------------------------------------------------------------------------
(* The other tool callables of pynvme.py and renode.py.  Of a text the      *)
(* tools test only whether it holds certain substrings: "codeA" is a text   *)
(* that holds every substring a tool looks for, "codeB" one that holds      *)
(* none and is shorter than ten characters.                                 *)

\* needle in code (also the re.search tests, and the tests on code.lower())
Contains(code, needle) == code = "codeA"

\* if cond: <list>.append(msg)
When(cond, msg) == IF cond THEN <<msg>> ELSE <<>>

validate_test_syntax(test_code) ==
    LET errors == When(~Contains(test_code, "pytest"), "Missing import: pytest")
                  \o When(~Contains(test_code, "pynvme"), "Missing import: pynvme")
                  \o When(~Contains(test_code, "def test_"), "No test function found")
        warnings == When(~Contains(test_code, "nvme") /\ ~Contains(test_code, "subsystem"),
                         "No PyNVMe fixture (nvme/subsystem) detected")
                    \o When(~Contains(test_code, "assert"), "No assertions found in test")
    IN  [is_valid |-> errors = <<>>, errors |-> errors, warnings |-> warnings,
         suggestions |-> <<>>]

check_pynvme_best_practices(test_code) ==
    LET check(c, good, bad) == [good |-> When(c, good), bad |-> When(~c, bad)]
        cs == <<check(Contains(test_code, "nvme.close()") \/ Contains(test_code, "with "),
                      "Proper resource cleanup detected", "Add proper cleanup"),
                check(Contains(test_code, "try:") \/ Contains(test_code, "pytest.raises"),
                      "Error handling present", "Consider adding error handling"),
                check(Contains(test_code, "timeout"),
                      "Timeout handling present", "Consider adding timeout parameters"),
                check(Contains(test_code, "docstring quotes"),
                      "Test documentation present", "Add docstring")>>
    IN  [good_practices |-> cs[1].good \o cs[2].good \o cs[3].good \o cs[4].good,
         improvements_needed |-> cs[1].bad \o cs[2].bad \o cs[3].bad \o cs[4].bad]

suggest_test_improvements(test_code, validation_results) ==
    LET suggestions ==
            (IF ~validation_results.is_valid
             THEN <<"CRITICAL: Fix validation errors first">> \o validation_results.errors
             ELSE <<>>)
            \o (IF validation_results.warnings # <<>>
                THEN <<"WARNINGS:">> \o validation_results.warnings
                ELSE <<>>)
            \o When(~Contains(test_code, "pytest.mark"), "Consider adding pytest markers")
            \o When(~Contains(test_code, "logging"), "Add logging for better debugging")
    IN  IF suggestions # <<>> THEN suggestions ELSE <<"Test looks good!">>

\* templates.get(test_type, templates["read"])
get_test_template(test_type) ==
    IF test_type \in {<<"read">>, <<"write">>, <<"admin">>} THEN test_type ELSE <<"read">>

validate_renode_syntax(code, code_type) ==
    LET r == CASE code_type = <<"resc">> ->
                    [errors |-> <<>>,
                     warnings |-> When(~Contains(code, "mach create") /\ ~Contains(code, "using sysbus"),
                                       "No machine creation or sysbus usage found"),
                     suggestions |-> When(~Contains(code, "sysbus LoadELF")
                                          /\ ~Contains(code, "machine StartGdbServer")
                                          /\ ~Contains(code, "start"),
                                          "Consider adding common RENODE commands")]
               [] code_type = <<"repl">> ->
                    [errors |-> When(~Contains(code, "name: type"), "Invalid REPL syntax"),
                     warnings |-> When(~Contains(code, "@"), "No memory addresses (@) specified"),
                     suggestions |-> When(~Contains(code, "size:"), "Consider specifying sizes")]
               [] code_type = <<"cs">> ->
                    [errors |-> When(~Contains(code, "using Antmicro.Renode"),
                                     "Missing RENODE namespace imports")
                                \o When(~Contains(code, "class"), "No class definition found"),
                     warnings |-> When(~Contains(code, ": IDoubleWordPeripheral")
                                       /\ ~Contains(code, ": IBytePeripheral"),
                                       "Consider implementing IDoubleWordPeripheral"),
                     suggestions |-> <<>>]
               [] code_type = <<"platform">> ->
                    [errors |-> <<>>,
                     warnings |-> When(~Contains(code, "cpu:") /\ ~Contains(code, "nvic:"),
                                       "No CPU or NVIC defined"),
                     suggestions |-> When(~Contains(code, "uart") /\ ~Contains(code, "usart"),
                                          "Consider adding UART for debugging")]
               [] OTHER -> [errors |-> <<>>, warnings |-> <<>>, suggestions |-> <<>>]
        errors == r.errors \o When(code = "codeB", "Code is too short or empty")
    IN  [is_valid |-> errors = <<>>, errors |-> errors, warnings |-> r.warnings,
         suggestions |-> r.suggestions, code_type |-> code_type]

\* Neither text has more than 100 lines.
check_renode_best_practices(code, code_type) ==
    LET check(c, good, bad) == [good |-> When(c, good), bad |-> When(~c, bad)]
        none == [good |-> <<>>, bad |-> <<>>]
        cs == CASE code_type = <<"resc">> ->
                     <<check(Contains(code, "# ") \/ Contains(code, "//"),
                             "Code includes comments", "Add comments"),
                       check(Contains(code, "logLevel"),
                             "Logging configuration present", "Consider setting logLevel"),
                       check(Contains(code, "showAnalyzer") \/ Contains(code, "CreateTerminalTester"),
                             "Output/analysis tools configured", "Add analyzer or terminal tester"),
                       none>>
                [] code_type = <<"repl">> ->
                     <<check(Contains(code, "///"),
                             "Documentation comments present", "Add /// documentation comments"),
                       [good |-> When(Contains(code, "<0x..., +0x...>"), "Proper address range syntax used"),
                        bad |-> <<>>],
                       check(Contains(code, "IRQ") \/ Contains(code, "-> "),
                             "Interrupt connections defined", "Consider defining interrupt connections"),
                       none>>
                [] code_type = <<"cs">> ->
                     <<[good |-> When(Contains(code, "[Constructor]"), "Constructor attribute used correctly"),
                        bad |-> <<>>],
                       check(Contains(code, "this.Log") \/ Contains(code, "this.DebugLog"),
                             "Logging implemented", "Add logging for debugging (this.Log)"),
                       check(Contains(code, "Reset()"),
                             "Reset method implemented", "Implement Reset() method"),
                       [good |-> When(Contains(code, "private") /\ Contains(code, "public"),
                                      "Proper access modifiers used"),
                        bad |-> <<>>]>>
                [] OTHER -> <<none, none, none, none>>
    IN  [good_practices |-> cs[1].good \o cs[2].good \o cs[3].good \o cs[4].good,
         improvements_needed |-> cs[1].bad \o cs[2].bad \o cs[3].bad \o cs[4].bad]

suggest_code_improvements(code, code_type, validation_results) ==
    <<"=== Improvements for", code_type>>
    \o (IF ~validation_results.is_valid
        THEN <<"CRITICAL ERRORS - Must fix:">> \o validation_results.errors ELSE <<>>)
    \o (IF validation_results.warnings # <<>>
        THEN <<"WARNINGS:">> \o validation_results.warnings ELSE <<>>)
    \o (IF validation_results.suggestions # <<>>
        THEN <<"SUGGESTIONS:">> \o validation_results.suggestions ELSE <<>>)
    \o When(code_type \in {<<"resc">>, <<"repl">>, <<"cs">>}, "Tips")

\* templates.get(template_type, templates["resc_basic"])
get_renode_template(template_type) ==
    IF template_type \in {<<"resc_basic">>, <<"resc_with_uart">>, <<"repl_platform">>,
                          <<"repl_uart">>, <<"cs_peripheral">>, <<"robot_test">>}
    THEN template_type ELSE <<"resc_basic">>

analyze_platform_compatibility(code, target_arch) ==
    LET issues == CASE target_arch = <<"ARM">> ->
                         When(~Contains(code, "CortexM") /\ ~Contains(code, "CortexA"),
                              "No ARM Cortex CPU defined")
                    [] target_arch = <<"RISC-V">> ->
                         When(~Contains(code, "RiscV"), "No RISC-V CPU defined")
                    [] OTHER -> <<>>
    IN  [compatible |-> issues = <<>>,
         architecture |-> target_arch,
         detected_peripherals |-> When(Contains(code, "UART"), "UART") \o When(Contains(code, "GPIO"), "GPIO")
                                  \o When(Contains(code, "Timer"), "TIMER") \o When(Contains(code, "SPI"), "SPI")
                                  \o When(Contains(code, "I2C"), "I2C"),
         issues |-> issues,
         recommendations |-> When(target_arch = <<"ARM">> /\ ~Contains(code, "NVIC")
                                  /\ ~Contains(code, "GIC"),
                                  "Consider adding interrupt controller (NVIC/GIC)")]

\* The tools of a front-end that are no save tool, and the arguments an agent
\* passes besides the text: a code type, a template or test type, an architecture.
PureTools(a) ==
    IF a = "pynvme"
    THEN ({"validate_test_syntax", "check_pynvme_best_practices", "suggest_test_improvements"}
            \X {<<>>})
         \cup ({"get_test_template"} \X {<<"read">>, <<"trim">>})
    ELSE ({"validate_renode_syntax", "check_renode_best_practices", "suggest_code_improvements"}
            \X {<<"resc">>, <<"robot">>})
         \cup ({"get_renode_template"} \X {<<"cs_peripheral">>, <<"robot">>})
         \cup ({"analyze_platform_compatibility"} \X {<<"ARM">>, <<"RISC-V">>})

\* A validation tool that kept a log of the texts it has seen.
MutantToolLogs(sv, tool, code, arg) ==
    {[save |-> [sv EXCEPT !.files = [x \in DOMAIN @ \cup {PathOf(<<"log">>)} |->
                                        IF x = PathOf(<<"log">>) THEN code ELSE @[x]]],
      result |-> <<>>]}

\* A call of a tool by an agent: what it leaves of the state of the save tools,
\* and what it returns.  The suggest tools are given the result of the
\* validation of the same text.
ToolCall(sv, tool, code, arg) ==
    {[save |-> sv,
      result |->
        CASE tool = "validate_test_syntax" -> validate_test_syntax(code)
          [] tool = "check_pynvme_best_practices" -> check_pynvme_best_practices(code)
          [] tool = "suggest_test_improvements" ->
                suggest_test_improvements(code, validate_test_syntax(code))
          [] tool = "get_test_template" -> get_test_template(arg)
          [] tool = "validate_renode_syntax" -> validate_renode_syntax(code, arg)
          [] tool = "check_renode_best_practices" -> check_renode_best_practices(code, arg)
          [] tool = "suggest_code_improvements" ->
                suggest_code_improvements(code, arg, validate_renode_syntax(code, arg))
          [] tool = "get_renode_template" -> get_renode_template(arg)
          [] OTHER -> analyze_platform_compatibility(code, arg)]}

----------------------------------------------------------------------------
(* The state machine *)

\* One run of the script of front-end a, started by `button` with the uploaders
\* holding u: the possible results.
Script(a, button, f, c, key, flag, u) ==
    CASE a = "code-reviewer" -> ReviewerScript(button, f, c, key, u)
      [] a = "code-analysis" -> AnalysisScript(button, f, c, u)
      [] OTHER -> DocsScript(a, button, f, c, key, flag, u)

Items(names) == [name : names, bytes : Bytes]

SeqsUpTo(S, n) == UNION {[1 .. k -> S] : k \in 0 .. n}

\* What the uploaders of front-end a can hold.
Uploads(a) ==
    {[code |-> x, doc |-> y] :
        x \in SeqsUpTo(Items(CodeNames(a)), MaxBatch),
        y \in SeqsUpTo(Items(DocNames(a)), MaxBatch)}

BatchSize(u) == Len(u.code) + Len(u.doc)

ProtectedCount(f) ==
    Cardinality({<<d, n>> \in UNION {{d} \X DOMAIN f[d].files : d \in DOMAIN f} :
                    f[d].files[n].mode # "rw"})

Run(button, u) ==
    \E r \in Script(app, button, fs, coll, uploader_key, kb_flag, u) :
        /\ fs' = r.fs
        /\ coll' = r.coll
        /\ upl' = r.upl
        /\ uploader_key' = r.key
        /\ kb_flag' = r.flag
        /\ pc' = r.pc
        /\ out' = r.out
        /\ UNCHANGED app

\* The save tools before any call, and a deployment with no second session.
NoSave == [clock |-> 0, n |-> 0, dirs |-> {}, files |-> <<>>, last |-> NoCall]

NoRace == [file |-> "none", first |-> "none", sess |-> <<>>]

\* A script run whose button belongs to no tab handler.
NoHandler ==
    /\ resp' = NoResp
    /\ UNCHANGED <<history, save, race>>

\* A fresh session on a deployment: nothing uploaded, no collection; the
\* generated-output directory may hold a file saved by an earlier session.
Init ==
    /\ app \in Apps
    /\ \E g \in BOOLEAN :
          fs = [d \in Dirs(app) |->
                  IF g /\ d = GeneratedDir(app)
                  THEN WriteFile(EmptyDir, GeneratedFile, "generated")
                  ELSE AbsentDir]
    /\ coll = NoCollection
    /\ upl = NoUpload
    /\ uploader_key = 0
    /\ kb_flag = FALSE
    /\ pc = "idle"
    /\ out = NoOut("none", NoUpload)
    /\ history = <<>>
    /\ resp = NoResp
    /\ save = NoSave
    /\ race = NoRace

\* s with further files appended.
Appended(s, t) == Len(t) > Len(s) /\ SubSeq(t, 1, Len(s)) = s

\* s with one of its files removed.
OneRemoved(s, t) ==
    \E i \in DOMAIN s : t = SubSeq(s, 1, i - 1) \o SubSeq(s, i + 1, Len(s))

\* The user adds files to one uploader (one or several, picked in one dialog) or
\* removes one file from it: the script runs with the new content.
UserUpload ==
    /\ pc = "idle"
    /\ \E u \in Uploads(app) :
          /\ BatchSize(u) <= MaxBatch
          /\ \/ u.doc = upl.doc /\ (Appended(upl.code, u.code) \/ OneRemoved(upl.code, u.code))
             \/ u.code = upl.code /\ (Appended(upl.doc, u.doc) \/ OneRemoved(upl.doc, u.doc))
          /\ Run("none", u)
    /\ NoHandler

\* Any other interaction (another widget, another button, a page refresh): the
\* script runs with the uploaders as they are.
Refresh ==
    /\ pc = "idle"
    /\ Run("none", upl)
    /\ NoHandler

\* The run st.rerun() / st.experimental_rerun() starts.
Rerun ==
    /\ pc = "rerun"
    /\ Run("rerun", upl)
    /\ NoHandler

ClearKnowledgeBase ==
    /\ pc = "idle"
    /\ uploader_key < MaxKey
    /\ Run("clear", upl)
    /\ NoHandler

LoadDocumentation ==
    /\ pc = "idle"
    /\ app \in DocsApps
    /\ upl.doc # <<>>
    /\ Run("load", upl)
    /\ NoHandler

\* The environment makes a stored file read-only ("ro"), holds it open so that
\* it cannot be removed ("stuck"), or releases it ("rw").
EnvProtect ==
    /\ \E d \in DOMAIN fs : \E n \in DOMAIN fs[d].files : \E m \in {"rw", "ro", "stuck"} :
          /\ m # fs[d].files[n].mode
          /\ fs' = [fs EXCEPT ![d].files[n].mode = m]
          /\ ProtectedCount(fs') <= MaxProtected
    /\ out' = NoOut("env", upl)
    /\ UNCHANGED <<app, coll, upl, uploader_key, kb_flag, pc, history, resp, save, race>>

Next ==
    \/ UserUpload
    \/ Refresh
    \/ Rerun
    \/ ClearKnowledgeBase
    \/ LoadDocumentation
    \/ EnvProtect

Spec == Init /\ [][Next]_vars

\* The button of a tab is pressed with the text q in its text_area: the script
\* runs from the top, and reaches the handler unless an exception ended it
\* before.  The Validate button of the browser exists once a file was generated.
Respond ==
    /\ pc = "idle"
    /\ Len(history) < MaxHistory
    /\ \E tab \in Tabs(app), q \in Queries :
       \E r \in Script(app, "none", fs, coll, uploader_key, kb_flag, upl) :
          /\ tab = "Browser" => FileExists(r.fs[GeneratedDir(app)], GeneratedFile)
          /\ \E h \in (IF r.out.raised
                       THEN {[fs |-> r.fs, history |-> history, resp |-> NoResp]}
                       ELSE Handler(app, tab, q, r.fs, history)) :
                /\ fs' = h.fs
                /\ history' = h.history
                /\ resp' = h.resp
          /\ coll' = r.coll
          /\ upl' = r.upl
          /\ uploader_key' = r.key
          /\ kb_flag' = r.flag
          /\ pc' = r.pc
          /\ out' = r.out
    /\ UNCHANGED <<app, save, race>>

\* The Delete button of a generated file is pressed.
DeleteGenerated ==
    /\ pc = "idle"
    /\ app \in DocsApps
    /\ \E r \in Script(app, "none", fs, coll, uploader_key, kb_flag, upl) :
          /\ FileExists(r.fs[GeneratedDir(app)], GeneratedFile)
          /\ LET d == IF r.out.raised THEN [fs |-> r.fs, ok |-> FALSE] ELSE DeleteFile(app, r.fs)
             IN  /\ fs' = d.fs
                 /\ pc' = IF d.ok THEN "rerun" ELSE r.pc
                 /\ out' = [r.out EXCEPT
                              !.button = "delete",
                              !.raised = @ \/ (~d.ok /\ app = "pynvme"),
                              !.msgs = @ \cup (IF d.ok THEN {Msg("success", "Deleted!", "")}
                                                ELSE IF app = "renode" /\ ~r.out.raised
                                                THEN {Msg("error", "Error reading file", "")}
                                                ELSE {})]
          /\ coll' = r.coll
          /\ upl' = r.upl
          /\ uploader_key' = r.key
          /\ kb_flag' = r.flag
    /\ NoHandler
    /\ UNCHANGED app

\* The session of one user: every interaction, on a deployment whose files the
\* environment leaves alone.
SessionNext ==
    \/ UserUpload
    \/ Refresh
    \/ Rerun
    \/ ClearKnowledgeBase
    \/ LoadDocumentation
    \/ Respond
    \/ DeleteGenerated

SessionSpec == Init /\ [][SessionNext]_vars

----------------------------------------------------------------------------
(* The save tools as a state machine: the calls an agent makes, and the clock *)

\* Everything but the save tools stays as a fresh deployment has it.
InitSave ==
    /\ app \in DocsApps
    /\ fs = [d \in Dirs(app) |-> AbsentDir]
    /\ coll = NoCollection
    /\ upl = NoUpload
    /\ uploader_key = 0
    /\ kb_flag = FALSE
    /\ pc = "idle"
    /\ out = NoOut("none", NoUpload)
    /\ history = <<>>
    /\ resp = NoResp
    /\ save = NoSave
    /\ race = NoRace

OnlySave == UNCHANGED <<app, fs, coll, upl, uploader_key, kb_flag, pc, out, history, resp, race>>

\* An agent of pynvme.py calls save_test_case.
SaveTestCase ==
    /\ app = "pynvme"
    /\ save.n < MaxSaves
    /\ \E test_name \in SaveNames, test_code \in Codes, category \in Categories :
          save' = save_test_case(save, test_name, test_code, category)
    /\ OnlySave

\* An agent of renode.py calls save_renode_code.
SaveRenodeCode ==
    /\ app = "renode"
    /\ save.n < MaxSaves
    /\ \E filename \in SaveNames, code \in Codes, code_type \in CodeTypes, category \in Categories :
          save' = save_renode_code(save, filename, code, code_type, category)
    /\ OnlySave

\* A second passes.
Tick ==
    /\ save.clock < MaxClock
    /\ save' = [save EXCEPT !.clock = @ + 1]
    /\ OnlySave

\* An agent calls one of the other tools.
CallTool ==
    /\ save.n < MaxSaves
    /\ \E t \in PureTools(app), code \in Codes :
       \E r \in ToolCall(save, t[1], code, t[2]) :
          save' = [r.save EXCEPT !.n = @ + 1,
                                 !.last = [NoCall EXCEPT !.tool = t[1], !.code = code, !.arg = t[2],
                                                         !.status = "returned",
                                                         !.result = r.result]]
    /\ OnlySave

SaveNext ==
    \/ SaveTestCase
    \/ SaveRenodeCode
    \/ CallTool
    \/ Tick

SaveSpec == InitSave /\ [][SaveNext]_vars

----------------------------------------------------------------------------
(* Properties *)

\* The buttons of a script run that is not a Clear Knowledge Base run.
RunButtons == {"none", "rerun", "load"}

\* The directories uploads are stored into.
UploadDirs(a) == {CodeDir(a), DocsDir(a)} \ {""}

\* Every file of the uploaders u is stored in the file system f.
AllStored(a, u, f) ==
    /\ \A i \in DOMAIN u.code : FileExists(f[CodeDir(a)], u.code[i].name)
    /\ \A i \in DOMAIN u.doc : FileExists(f[DocsDir(a)], u.doc[i].name)

\* In this step, the batch b was stored into directory d with the flags w, first
\* write wins: a file is written iff its name was neither stored before the run
\* nor written earlier in the batch; a written file holds the bytes of its
\* upload; every file stored before the run keeps its content.
StoredFirstWriteWins(d, b, w) ==
    /\ Len(w) = Len(b)
    /\ \A i \in DOMAIN b :
          /\ w[i] <=> /\ ~FileExists(fs[d], b[i].name)
                      /\ \A j \in 1 .. (i - 1) : b[j].name # b[i].name
          /\ w[i] => /\ FileExists(fs'[d], b[i].name)
                     /\ fs'[d].files[b[i].name].bytes = b[i].bytes
    /\ \A n \in DOMAIN fs[d].files :
          /\ FileExists(fs'[d], n)
          /\ fs'[d].files[n].bytes = fs[d].files[n].bytes

StepFirstWriteWins(a) ==
    /\ CodeDir(a) # "" => StoredFirstWriteWins(CodeDir(a), out'.batch.code, out'.written_code)
    /\ DocsDir(a) # "" => StoredFirstWriteWins(DocsDir(a), out'.batch.doc, out'.written_doc)

C2_AnalysisFirstWriteWins ==
    [][(app = "code-analysis" /\ out'.button \in RunButtons /\ ~out'.raised) =>
          /\ \A i \in DOMAIN out'.batch.code :
                FileExists(fs["uploaded_code"], out'.batch.code[i].name)
                    => ~out'.written_code[i]
          /\ \A n \in DOMAIN fs["uploaded_code"].files :
                /\ FileExists(fs'["uploaded_code"], n)
                /\ fs'["uploaded_code"].files[n].bytes = fs["uploaded_code"].files[n].bytes]_vars

C4_IngestOnlyAfterWrite ==
    [][(app \in {"code-analysis", "pynvme", "renode"} /\ out'.loads # <<>>) =>
          /\ AnyWritten(out'.written_code) \/ AnyWritten(out'.written_doc)
          /\ ~AllStored(app, out'.batch, fs)]_vars

\* C5: every load call of every front-end has recreate = false and upsert = true,
\* and no step other than Clear Knowledge Base drops the collection or removes a
\* chunk from it: what an ingest call embedded stays through all later ingest calls.
C5_IngestNeverShrinks ==
    [][/\ \A i \in DOMAIN out'.loads : ~out'.loads[i].recreate /\ out'.loads[i].upsert
       /\ out'.button # "clear" =>
             /\ coll.chunks \subseteq coll'.chunks
             /\ coll.exists => coll'.exists]_vars

\* C5 witness: a load has just succeeded and the collection still holds a chunk
\* of an earlier ingest that the load did not produce (the file has other bytes now).
C5_Witness ==
    /\ out.loads # <<>>
    /\ \A i \in DOMAIN out.loads : out.loads[i].ok
    /\ \E ch \in coll.chunks : ch \notin Documents(fs, ch.path)

\* The file system as the Clear Knowledge Base handler of front-end a finds it in
\* a run that starts with the file system f: the statements above the handler have
\* opened the index client (code-analysis.py) or created the documentation
\* directory (pynvme.py, renode.py), and the handler opens the client itself
\* before it removes folders.
SeenByClear(a, f) ==
    IF a \in DocsApps THEN ClientOpen(Makedirs(f, DocsDir(a)), a) ELSE ClientOpen(f, a)

\* C6: in code-reviewer.py, a Clear Knowledge Base run attempts the collection
\* delete and calls the removal of every listed folder that exists, also when the
\* collection delete failed.
C6_ReviewerClearTolerant ==
    [][(app = "code-reviewer" /\ out'.button = "clear") =>
          /\ out'.coll_delete = (IF coll.exists THEN "ok" ELSE "failed")
          /\ \A d \in Range(ReviewerClearFolders) :
                SeenByClear(app, fs)[d].exists => d \in out'.attempted]_vars

\* C6 witness: code-reviewer.py has run Clear Knowledge Base, the collection
\* delete failed, and the removal of all three folders was called.
C6_Witness ==
    /\ app = "code-reviewer"
    /\ out.button = "clear"
    /\ out.coll_delete = "failed"
    /\ out.attempted = {"uploaded_code", "uploaded_docs", "./chroma_db"}

\* C7: in pynvme.py and renode.py, a Clear Knowledge Base run whose collection
\* delete failed still calls the removal of every listed folder that exists.
C7_DocsClearTolerant ==
    [][(app \in DocsApps /\ out'.button = "clear" /\ out'.coll_delete = "failed") =>
          \A d \in Range(ClearFolders(app)) :
              SeenByClear(app, fs)[d].exists => d \in out'.attempted]_vars

\* C8: in a Clear Knowledge Base run that removes folders, the removal of every
\* listed folder that exists is called even if the removal of another failed, and
\* a folder that is still there afterwards is not reported as deleted.
C8_ClearReportsFailures ==
    [][(out'.button = "clear" /\ out'.attempted # {}) =>
          \A d \in Dirs(app) :
              /\ SeenByClear(app, fs)[d].exists => d \in out'.attempted
              /\ Msg("info", "Deleted", d) \in out'.msgs => ~fs'[d].exists]_vars

\* The directories that hold artifacts: uploads and generated files.
ArtifactDirs(a) == {CodeDir(a), DocsDir(a), GeneratedDir(a)} \ {""}

\* C9: once Clear Knowledge Base has finished and the page has rerun, the
\* collection holds no chunk and no artifact directory holds a file.
C9_ClearedAfterRerun ==
    out.button = "rerun" =>
        /\ coll.chunks = {}
        /\ \A d \in ArtifactDirs(app) : DOMAIN fs[d].files = {}

\* C10: a Clear Knowledge Base run raises nothing when no listed folder exists,
\* and a read-only file of a folder it removes is removed (the deletion is retried
\* after write permission is forced).
C10_ClearRetriesReadOnly ==
    [][out'.button = "clear" =>
          /\ (\A d \in Dirs(app) : ~SeenByClear(app, fs)[d].exists) => ~out'.raised
          /\ \A d \in out'.attempted :
                \A n \in DOMAIN fs[d].files :
                    fs[d].files[n].mode = "ro" => ~FileExists(fs'[d], n)]_vars

----------------------------------------------------------------------------
(* Several sessions on one deployment upload a file of one name into one    *)
(* category.  Each session runs the script in a thread of its own, so the   *)
(* statements of the upload loops interleave: the os.path.exists test is    *)
(* one step, the open(...,"wb") / write is another.                         *)

\* The front-ends whose upload loop tests os.path.exists.
GuardedApps == {"code-reviewer", "pynvme", "renode"}

Sessions == 1 .. MaxSessions

RaceCategory(a) == IF a = "code-reviewer" THEN "code" ELSE "doc"

InitRace ==
    /\ app \in GuardedApps
    /\ fs = [d \in Dirs(app) |-> AbsentDir]
    /\ coll = NoCollection
    /\ upl = NoUpload
    /\ uploader_key = 0
    /\ kb_flag = FALSE
    /\ pc = "idle"
    /\ out = NoOut("none", NoUpload)
    /\ history = <<>>
    /\ resp = NoResp
    /\ save = NoSave
    /\ race = [NoRace EXCEPT !.sess = [i \in Sessions |-> [pc |-> "idle", bytes |-> "none"]]]

OnlyRace == UNCHANGED <<app, fs, coll, upl, uploader_key, kb_flag, pc, out, history, resp, save>>

\* The user of session i puts the file in the uploader: the script of the
\* session starts and reaches the upload loop.
RaceUpload(i) ==
    /\ race.sess[i].pc = "idle"
    /\ \E b \in Bytes : race' = [race EXCEPT !.sess[i] = [pc |-> "check", bytes |-> b]]
    /\ OnlyRace

\* if not os.path.exists(file_path):
RaceCheck(i) ==
    /\ race.sess[i].pc = "check"
    /\ race' = [race EXCEPT !.sess[i].pc =
                    IF WriteGuard(app, RaceCategory(app), race.file # "none")
                    THEN "write" ELSE "skipped"]
    /\ OnlyRace

\* with open(file_path, "wb") as f: f.write(file.getbuffer())
RaceWrite(i) ==
    /\ race.sess[i].pc = "write"
    /\ race' = [race EXCEPT !.sess[i].pc = "written",
                            !.file = race.sess[i].bytes,
                            !.first = IF @ = "none" THEN race.sess[i].bytes ELSE @]
    /\ OnlyRace

\* The user removes the file from the uploader.
RaceRemove(i) ==
    /\ race.sess[i].pc \in {"written", "skipped"}
    /\ race' = [race EXCEPT !.sess[i] = [pc |-> "idle", bytes |-> "none"]]
    /\ OnlyRace

RaceNext ==
    \E i \in Sessions :
        \/ RaceUpload(i)
        \/ RaceCheck(i)
        \/ RaceWrite(i)
        \/ RaceRemove(i)

RaceSpec == InitRace /\ [][RaceNext]_vars

\* C18: when sessions store one filename in one category with different bytes,
\* the stored content is the bytes of the write that happened first, whatever
\* the interleaving of their existence tests and writes.
C18_ConcurrentFirstWriteWins ==
    race.file # "none" => race.file = race.first

----------------------------------------------------------------------------
(* Properties of the tab handlers and the session history (SessionSpec) *)

\* The handler of a tab was reached in the step.
Handled == resp'.tab # "none"

\* The handler called run() and every call returned.
Succeeded == Handled /\ resp'.calls # <<>> /\ ~resp'.failed

\* The number of stored documentation files of pynvme.py / renode.py.
DocCount(a, f) == IF f[DocsDir(a)].exists THEN Cardinality(DOMAIN f[DocsDir(a)].files) ELSE 0

\* The kind and the request of a record of the history.
RecordKind(rec) == IF "type" \in DOMAIN rec THEN rec.type ELSE "none"

RecordQuery(rec) == IF "query" \in DOMAIN rec THEN rec.query ELSE rec.requirement

\* C11: in code-analysis.py and in the four tabs of code-reviewer.py, a press of
\* the button of a tab while no code file is stored displays a warning, calls
\* run() on no agent and appends nothing to the history, whatever the text.
C11_NoArtifactsNoRespond ==
    [][(app \in {"code-reviewer", "code-analysis"} /\ Handled /\ CodeCount(fs') = 0) =>
          /\ resp'.warning # ""
          /\ resp'.calls = <<>>
          /\ history' = history]_vars

\* A request was refused in a tab of code-reviewer.py because no code file is
\* stored, in a session whose history is not empty.
C11_Witness ==
    /\ app = "code-reviewer"
    /\ resp.tab = "Safety"
    /\ resp.query = "check"
    /\ resp.warning = "Please upload code files first!"
    /\ CodeCount(fs) = 0
    /\ history # <<>>

\* C12: in pynvme.py and renode.py, a press of a generate, validate, orchestrate
\* or expert button while the documentation directory is empty calls run() on
\* no agent.
C12_DocsNoArtifactsNoRespond ==
    [][(app \in DocsApps /\ Handled /\ resp'.tab # "Browser" /\ DocCount(app, fs') = 0) =>
          resp'.calls = <<>>]_vars

\* C13: a press of the button of a tab with an empty text displays a warning,
\* calls run() on no agent and leaves the history as it is; the next press of
\* the same button with a text calls the agent (in code-reviewer.py and
\* code-analysis.py provided a code file is stored).
C13_EmptyQueryWarning ==
    [][/\ (Handled /\ resp'.tab # "Browser" /\ resp'.query = "") =>
            /\ resp'.warning # ""
            /\ resp'.calls = <<>>
            /\ history' = history
       /\ (/\ resp.tab # "none" /\ resp.query = "" /\ resp.warning # ""
           /\ resp'.tab = resp.tab /\ resp'.query # ""
           /\ app \in {"code-reviewer", "code-analysis"} => CodeCount(fs') > 0) =>
            resp'.calls # <<>>]_vars

\* The Ask Expert button of pynvme.py was pressed with an empty text.
C13_Witness ==
    /\ app = "pynvme"
    /\ resp.tab = "Expert"
    /\ resp.query = ""
    /\ resp.warning = "Please enter a request"

\* C14: when the run() of a handler succeeds, exactly one record is appended to
\* the end of the history, its kind is the tab that was used and its request is
\* the text the user submitted.
C14_RecordAppended ==
    [][Succeeded =>
          /\ Len(history') = Len(history) + 1
          /\ SubSeq(history', 1, Len(history)) = history
          /\ RecordKind(history'[Len(history')]) = resp'.tab
          /\ RecordQuery(history'[Len(history')]) = resp'.query]_vars

\* C15: every successful run() of a handler, in any tab of any front-end, is
\* followed by the append of a record to the history.
C15_EveryRespondRecorded ==
    [][Succeeded => Len(history') > Len(history)]_vars

\* C16: no step of a session removes, reorders or changes a record of the
\* history: the history before a step is a prefix of the history after it.
C16_HistoryAppendOnly ==
    [][/\ Len(history') >= Len(history)
       /\ SubSeq(history', 1, Len(history)) = history]_vars

\* Clear Knowledge Base has removed folders in a session whose history holds
\* two records.
C16_Witness ==
    /\ Len(history) = 2
    /\ history[1] # history[2]
    /\ out.button = "clear"
    /\ out.attempted # {}

\* C17: a script run calls run() on at most one agent, the one bound to the tab
\* whose button was pressed.
C17_OneResponderPerRun ==
 [][LET Bound == {<<"code-reviewer", "Comprehensive", "review_team">>,
                  <<"code-reviewer", "Code Analysis", "code_analyzer">>,
                  <<"code-reviewer", "Architecture", "architecture_reviewer">>,
                  <<"code-reviewer", "Safety", "safety_validator">>,
                  <<"code-analysis", "Analyze Code", "code_analyzer">>,
                  <<"pynvme", "Orchestrated", "test_orchestrator">>,
                  <<"pynvme", "Generation", "test_generator">>,
                  <<"pynvme", "Validation", "test_validator">>,
                  <<"pynvme", "Expert", "pynvme_expert">>,
                  <<"renode", "Orchestrated", "code_orchestrator">>,
                  <<"renode", "Generation", "code_generator">>,
                  <<"renode", "Validation", "code_validator">>,
                  <<"renode", "Expert", "renode_expert">>,
                  <<"renode", "Browser", "code_validator">>}
    IN  Handled =>
              /\ Len(resp'.calls) <= 1
              /\ \A i \in DOMAIN resp'.calls :
                    <<app, resp'.tab, resp'.calls[i].responder>> \in Bound]_vars

\* The Review Architecture button called architecture_reviewer.run(), once.
C17_Witness ==
    /\ app = "code-reviewer"
    /\ resp.tab = "Architecture"
    /\ resp.calls = <<[responder |-> "architecture_reviewer", ok |-> TRUE]>>

----------------------------------------------------------------------------
(* Properties of the save tools (SaveSpec) *)

\* The step is a call of a save tool that wrote its file.
Saved == save'.n = save.n + 1 /\ save'.last.status = "success"

\* C19: a save of save_test_case or save_renode_code never writes to the path
\* of a file an earlier save wrote; in particular two saves of one name, category
\* and code type in one second give two files.
C19_SaveNeverOverwrites ==
    [][Saved => save'.last.path \notin DOMAIN save.files]_vars

\* C20: save_renode_code turns the filename into a token without "/", "\" or
\* ".", and for every filename, code_type and category the file it writes is
\* inside the directory generated_renode.
C20_RenodePathInside ==
    (save.last.tool = "save_renode_code" /\ save.last.status = "success") =>
        /\ \A i \in DOMAIN save.last.safe : save.last.safe[i] \notin {".", "/", "\\"}
        /\ Within(save.last.path, <<"generated_renode">>)

\* C21: for every test_name and category, the file save_test_case writes is
\* inside the directory generated_tests.
C21_PynvmePathInside ==
    (save.last.tool = "save_test_case" /\ save.last.status = "success") =>
        Within(save.last.path, <<"generated_tests">>)

\* C27: save_renode_code saves code of each supported type, "robot" among them,
\* under the extension of the type's name.
C27_RobotExtension ==
    (/\ save.last.tool = "save_renode_code"
     /\ save.last.status = "success"
     /\ save.last.arg \in {<<"resc">>, <<"repl">>, <<"cs">>, <<"robot">>}) =>
        LET file == save.last.path.parts[Len(save.last.path.parts)]
        IN  SubSeq(file, Len(file) - 1, Len(file)) = <<".">> \o save.last.arg

\* The step is a call of a tool that is no save tool, and the call before it.
PureCall == save'.n = save.n + 1 /\ save'.last.status = "returned"

SameCall ==
    /\ save.last.tool = save'.last.tool
    /\ save.last.code = save'.last.code
    /\ save.last.arg = save'.last.arg

\* C22: a call of a tool other than save_test_case and save_renode_code leaves
\* the files, the directories and every other variable as they are, and returns
\* what the call before it returned if that was the same call; a file is
\* written by a save tool only.
C22_ToolsArePure ==
    [][/\ PureCall =>
            /\ save'.files = save.files
            /\ save'.dirs = save.dirs
            /\ UNCHANGED <<fs, coll, history, upl, uploader_key>>
            /\ SameCall => save'.last.result = save.last.result
       /\ save'.files # save.files =>
            save'.last.tool \in {"save_test_case", "save_renode_code"}]_vars

\* validate_renode_syntax has returned its verdict on a short text, a second
\* after save_renode_code wrote a file.
C22_Witness ==
    /\ save.last.tool = "validate_renode_syntax"
    /\ save.last.status = "returned"
    /\ save.last.code = "codeB"
    /\ ~save.last.result.is_valid
    /\ save.n > 1
    /\ save.clock = 1
    /\ save.files # <<>>

\* C23: a save tool writes a file only for a text that the call before it has
\* validated: every save follows a validation of the same text that found it valid.
C23_SavedAfterValidated ==
    [][Saved =>
          /\ save.last.tool \in {"validate_test_syntax", "validate_renode_syntax"}
          /\ save.last.code = save'.last.code
          /\ save.last.result.is_valid]_vars

----------------------------------------------------------------------------
(* Failures *)

\* C24: a file of an upload batch that cannot be written stops the storing of
\* that file only: the run handles every file of the batch, every file of the
\* batch is stored at its end, and no exception leaves the script.
C24_BatchFailureIsolated ==
    [][out'.button \in RunButtons =>
          /\ ~out'.raised
          /\ Len(out'.written_code) = Len(out'.batch.code)
          /\ Len(out'.written_doc) = Len(out'.batch.doc)
          /\ AllStored(app, out'.batch, fs')]_vars

\* C25: no failure of a respond, an ingest or a Clear Knowledge Base leaves the
\* script: a Clear Knowledge Base run ends without an uncaught exception, a load
\* that failed is shown as an error message, and a respond that failed was
\* called once and leaves the history as it was.
C25_NoFailureIsFatal ==
    [][/\ out'.button = "clear" => ~out'.raised
       /\ (\E i \in DOMAIN out'.loads : ~out'.loads[i].ok) =>
              /\ ~out'.raised
              /\ \E m \in out'.msgs : m.level = "error"
       /\ resp'.failed =>
              /\ Len(resp'.calls) = 1
              /\ history' = history]_vars

----------------------------------------------------------------------------
(* The Knowledge Sources and their vector index *)

\* The knowledge bases a front-end constructs, each with the path and the
\* collection of the vector_db it is given.
KnowledgeSources(a) ==
    LET source(kb) == [app |-> a, kb |-> kb, path |-> VECTOR_DB_PATH(a),
                       collection |-> CollectionName(a)]
    IN  CASE a = "code-reviewer" -> {source("code_knowledge"), source("docs_knowledge")}
          [] a = "code-analysis" -> {source("code_knowledge")}
          [] OTHER -> {source("PDFKnowledgeBase"), source("TextKnowledgeBase")}

\* C26: no Knowledge Source of the deployed front-end has the index path and the
\* collection name of another Knowledge Source, of the same front-end or of another.
C26_DistinctIndexes ==
    \A x \in KnowledgeSources(app) : \A b \in Apps : \A y \in KnowledgeSources(b) :
        x # y => <<x.path, x.collection>> # <<y.path, y.collection>>

----------------------------------------------------------------------------
(* Ingestion in code-reviewer.py *)

\* C28: in code-reviewer.py a run loads code_knowledge only if it wrote a code
\* file, and docs_knowledge only if it wrote a documentation file.
C28_IngestOwnCategoryOnly ==
    [][app = "code-reviewer" =>
          \A i \in DOMAIN out'.loads :
              /\ out'.loads[i].kb = "code_knowledge" => AnyWritten(out'.written_code)
              /\ out'.loads[i].kb = "docs_knowledge" => AnyWritten(out'.written_doc)]_vars

\* A load call of the run raised.
LoadFailed(o) == \E i \in DOMAIN o.loads : ~o.loads[i].ok

\* C29: in code-reviewer.py every file of the batch is on disk when the run ends,
\* whether or not a load raised; a load that raised is the last call of its run;
\* after a failed load of a batch that holds code the count of code files is
\* positive; and the run that follows a run with the same upload batch writes
\* nothing, leaves files_updated false, calls no load and leaves the collection
\* as it was.
C29_FailedIngestNotRetried ==
    [][(app = "code-reviewer" /\ out'.button \in RunButtons) =>
          /\ AllStored(app, out'.batch, fs')
          /\ \A i \in DOMAIN out'.loads : ~out'.loads[i].ok => i = Len(out'.loads)
          /\ (LoadFailed(out') /\ out'.batch.code # <<>>) => ~ReviewerRefuses(CodeCount(fs'))
          /\ (out.button \in RunButtons \cup {"env"} /\ out'.batch = out.batch) =>
                /\ ~AnyWritten(out'.written_code) /\ ~AnyWritten(out'.written_doc)
                /\ ~out'.files_updated
                /\ out'.loads = <<>>
                /\ coll' = coll]_vars

\* C29 witness: code-reviewer.py has rerun with a batch of a code file and a
\* document that are on disk; no load was called and the collection holds no
\* chunk: the files are stored, counted and not embedded.
C29_Witness ==
    /\ app = "code-reviewer"
    /\ out.button \in RunButtons
    /\ out.batch.code # <<>> /\ out.batch.doc # <<>>
    /\ AllStored(app, out.batch, fs)
    /\ CodeCount(fs) > 0
    /\ out.loads = <<>>
    /\ ~out.files_updated
    /\ coll.chunks = {}

----------------------------------------------------------------------------
(* The key of the uploaders *)

\* C30: in code-reviewer.py, pynvme.py and renode.py uploader_key never
\* decreases and changes only in a Clear Knowledge Base run that completes, by
\* exactly 1; such a run empties the uploaders, the rerun that follows it has no
\* batch, and a run without a batch writes no file and calls no load.
C30_ClearAdvancesUploaderKey ==
    [][(app \in GuardedApps) =>
          /\ uploader_key' >= uploader_key
          /\ uploader_key' # uploader_key => (out'.button = "clear" /\ pc' = "rerun")
          /\ (out'.button = "clear" /\ pc' = "rerun") =>
                /\ uploader_key' = uploader_key + 1
                /\ upl' = NoUpload
          /\ out'.button = "rerun" => out'.batch = NoUpload
          /\ (out'.button \in RunButtons /\ out'.batch = NoUpload) =>
                /\ out'.written_code = <<>> /\ out'.written_doc = <<>>
                /\ \A d \in UploadDirs(app) : fs'[d].files = fs[d].files
                /\ out'.loads = <<>>]_vars

\* C30 witness: the rerun after a completed Clear Knowledge Base of a session
\* that had uploaded: the key is 1, the uploaders are empty, nothing was stored
\* or loaded.
C30_Witness ==
    /\ app \in GuardedApps
    /\ out.button = "rerun"
    /\ uploader_key = 1
    /\ upl = NoUpload
    /\ out.written_code = <<>> /\ out.written_doc = <<>>
    /\ out.loads = <<>>

====
